---------------------------- MODULE Spec2Model ----------------------------
(***************************************************************************)
(* Model of main.py of the DQN Ice Hockey project: the command-line entry  *)
(* point.  One behaviour is one process run:                               *)
(*   display_project_info(); main()                                        *)
(* main() builds the argparse parser, parses the command line, resolves    *)
(* the device (determine_device), applies the train overrides to the       *)
(* process-wide config module and calls exactly one collaborator.          *)
(*                                                                         *)
(* The command line is abstracted to a record: the subcommand token, the   *)
(* presence of --gpu / --cpu, the --episodes and --learning_starts options *)
(* (absent, an integer, or a token int() rejects) and the number of        *)
(* positional tokens after the subcommand.  --render, --video,             *)
(* --output_dir and --model are parsed and only forwarded (or, for         *)
(* --model, ignored); they take no part in any branch and are left out.    *)
(***************************************************************************)
EXTENDS Integers, Sequences, FiniteSets

VARIABLES
    argv,       \* the raw command line of this run (sys.argv[1:])
    hw,         \* what torch reports: cuda, presence of backends.mps, mps
    compiled,   \* the values written in config.py (compiled-in defaults)
    config,     \* the config module's attributes (process-wide, mutable)
    parser,     \* the defaults captured by the train sub-parser
    args,       \* the Namespace returned by parse_args
    device,     \* the local variable device of main
    calls,      \* the collaborator calls made so far, in order
    out,        \* the messages printed so far, in order
    exitCode,   \* the process exit status, -1 while running
    pc          \* where the run is

vars == <<argv, hw, compiled, config, parser, args, device, calls, out, exitCode, pc>>

-----------------------------------------------------------------------------
(* Bounds of the model *)

MaxEpisodes == 2
MaxLearningStarts == 2
MaxPositionals == 2

(* Program constants *)

EVAL_EPISODES_DEFAULT == 10
COMPARE_EPISODES_DEFAULT == 10
EXIT_OK == 0
EXIT_DEVICE_CONFLICT == 1
EXIT_PARSE_ERROR == 2
RUNNING == -1

EpisodeValues == 1..MaxEpisodes
LearningStartsValues == 1..MaxLearningStarts

Commands == {"train", "evaluate", "compare", "visualize"}

\* An option on the command line: absent, or given with a token that int()
\* accepts (isInt) or rejects.
Absent == [given |-> FALSE, isInt |-> FALSE, val |-> 0]
IntOpt(v) == [given |-> TRUE, isInt |-> TRUE, val |-> v]
BadOpt == [given |-> TRUE, isInt |-> FALSE, val |-> 0]

ArgvSet ==
    [command : Commands \cup {"", "bogus"},
     gpu : BOOLEAN,
     cpu : BOOLEAN,
     episodes : {Absent, BadOpt} \cup {IntOpt(v) : v \in EpisodeValues},
     learning_starts : {Absent} \cup {IntOpt(v) : v \in LearningStartsValues},
     npos : 0..MaxPositionals]

HardwareSet == [cuda : BOOLEAN, has_mps : BOOLEAN, mps_available : BOOLEAN]

ConfigSet == [TRAINING_EPISODES : EpisodeValues, LEARNING_STARTS : LearningStartsValues]

\* The value of args before parse_args has returned.
NoArgs ==
    [parsed |-> FALSE, command |-> "", has_device_flags |-> FALSE,
     gpu |-> FALSE, cpu |-> FALSE, episodes |-> 0, learning_starts |-> 0]

Count(s, x) == Cardinality({i \in DOMAIN s : s[i] = x})

-----------------------------------------------------------------------------
(* The command schema (main.py lines 36-64) *)

\* Sub-parsers that declare --gpu and --cpu.
HasDeviceFlags(cmd) == cmd \in {"train", "evaluate", "compare"}

\* Sub-parsers that declare --episodes.
HasEpisodes(cmd) == cmd \in {"train", "evaluate", "compare"}

\* Sub-parsers that declare --learning_starts.
HasLearningStarts(cmd) == cmd = "train"

\* Whether a sub-parser accepts n positional tokens: train has none,
\* evaluate has model, compare has models (nargs="+"), visualize has results.
PositionalsOk(cmd, n) ==
    CASE cmd = "train" -> n = 0
      [] cmd = "evaluate" -> n = 1
      [] cmd = "compare" -> n >= 1
      [] cmd = "visualize" -> n = 1
      [] OTHER -> FALSE

\* parse_args succeeds (returns a Namespace) on this command line.  With no
\* subcommand token, any option is unrecognized by the top-level parser.
ParseSucceeds(a) ==
    IF a.command = ""
    THEN ~a.gpu /\ ~a.cpu /\ ~a.episodes.given /\ ~a.learning_starts.given /\ a.npos = 0
    ELSE /\ a.command \in Commands
         /\ PositionalsOk(a.command, a.npos)
         /\ (a.gpu \/ a.cpu) => HasDeviceFlags(a.command)
         /\ a.episodes.given => (HasEpisodes(a.command) /\ a.episodes.isInt)
         /\ a.learning_starts.given => HasLearningStarts(a.command)

\* The default of --episodes in each sub-parser.
EpisodesDefault(cmd, p) ==
    CASE cmd = "train" -> p.episodes
      [] cmd = "evaluate" -> EVAL_EPISODES_DEFAULT
      [] cmd = "compare" -> COMPARE_EPISODES_DEFAULT
      [] OTHER -> 0

\* The Namespace parse_args returns on a command line it accepts.
Namespace(a, p) ==
    [parsed |-> TRUE,
     command |-> a.command,
     has_device_flags |-> HasDeviceFlags(a.command),
     gpu |-> a.gpu,
     cpu |-> a.cpu,
     episodes |-> IF a.episodes.given THEN a.episodes.val
                  ELSE EpisodesDefault(a.command, p),
     learning_starts |-> IF a.learning_starts.given THEN a.learning_starts.val
                         ELSE IF a.command = "train" THEN p.learning_starts ELSE 0]

-----------------------------------------------------------------------------
(* Device resolution *)

\* torch.backends.mps exists and reports available (main.py line 146).
MpsAvailable(h) == h.has_mps /\ h.mps_available

\* utils.get_device(): auto-detection, CUDA, then Apple Silicon, then CPU.
GetDevice(h) ==
    IF h.cuda THEN "cuda" ELSE IF MpsAvailable(h) THEN "mps" ELSE "cpu"

\* Faulty variant of ForcedAccelerator: Apple Silicon is tried before CUDA.
ForcedAccelerator_MpsFirst(h) ==
    IF MpsAvailable(h) THEN "mps" ELSE IF h.cuda THEN "cuda" ELSE "cpu"

\* The --gpu branch of determine_device.
ForcedAccelerator(h) ==
    IF h.cuda THEN "cuda" ELSE IF MpsAvailable(h) THEN "mps" ELSE "cpu"

\* Faulty variant of ForcedAcceleratorNotice: the fallback to CPU is reported as if
\* the CPU had been asked for.
ForcedAcceleratorNotice_NoWarning(h) ==
    IF h.cuda THEN "Using CUDA GPU"
    ELSE IF MpsAvailable(h) THEN "Using Apple Silicon GPU (MPS)"
    ELSE "Forcing CPU usage as requested"

\* The message the --gpu branch prints.
ForcedAcceleratorNotice(h) ==
    IF h.cuda THEN "Using CUDA GPU"
    ELSE IF MpsAvailable(h) THEN "Using Apple Silicon GPU (MPS)"
    ELSE "Warning: GPU requested but no compatible GPU found, using CPU instead"

\* Faulty variant of DeviceConflict: the both-flags check is missing.
DeviceConflict_Unchecked(a) == FALSE

\* determine_device exits the process: both flags are set.
DeviceConflict(a) == a.has_device_flags /\ a.gpu /\ a.cpu

\* The device determine_device returns when it returns.
ResolvedDevice(a, h) ==
    IF a.has_device_flags
    THEN IF a.gpu THEN ForcedAccelerator(h)
         ELSE IF a.cpu THEN "cpu"
         ELSE GetDevice(h)
    ELSE GetDevice(h)

\* What determine_device prints when it returns.
ResolutionNotices(a, h) ==
    IF a.has_device_flags
    THEN IF a.gpu THEN <<ForcedAcceleratorNotice(h)>>
         ELSE IF a.cpu THEN <<"Forcing CPU usage as requested">>
         ELSE <<>>
    ELSE <<>>

-----------------------------------------------------------------------------
(* Dispatch *)

\* Faulty variant of NoCommand: the missing command is not detected.
NoCommand_Unchecked(a) == FALSE

\* args.command is None (line 70).
NoCommand(a) == a.command = ""

\* Faulty variant of OverridesApply: the evaluate branch applies the overrides too.
OverridesApply_Evaluate(cmd) == cmd \in {"train", "evaluate"}

\* The branch of main that applies the overrides (line 78).
OverridesApply(cmd) == cmd = "train"

\* Faulty variant of OverrideEpisodes: the notice is printed, the assignment is missing.
OverrideEpisodes_NoAssignment(cfg, a) == cfg.TRAINING_EPISODES

\* config.TRAINING_EPISODES after lines 80-82.
OverrideEpisodes(cfg, a) ==
    IF a.episodes # cfg.TRAINING_EPISODES THEN a.episodes ELSE cfg.TRAINING_EPISODES

\* config.LEARNING_STARTS after lines 84-86.
OverrideLearningStarts(cfg, a) ==
    IF a.learning_starts # cfg.LEARNING_STARTS THEN a.learning_starts
    ELSE cfg.LEARNING_STARTS

\* What lines 80-86 print.
OverrideNotices(cfg, a) ==
    (IF a.episodes # cfg.TRAINING_EPISODES
     THEN <<"Overriding training episodes">> ELSE <<>>)
    \o (IF a.learning_starts # cfg.LEARNING_STARTS
        THEN <<"Overriding learning start threshold">> ELSE <<>>)

\* Faulty variant of Collaborator: the compare branch calls evaluate_model.
Collaborator_CompareEvaluates(cmd) ==
    CASE cmd = "train" -> "train"
      [] cmd = "evaluate" -> "evaluate_model"
      [] cmd = "compare" -> "evaluate_model"
      [] cmd = "visualize" -> "plot_evaluation_results"
      [] OTHER -> "unknown"

\* The if/elif chain of main: the collaborator each command is mapped to.
Collaborator(cmd) ==
    CASE cmd = "train" -> "train"
      [] cmd = "evaluate" -> "evaluate_model"
      [] cmd = "compare" -> "compare_models"
      [] cmd = "visualize" -> "plot_evaluation_results"
      [] OTHER -> "unknown"

\* The device argument of the call: plot_evaluation_results takes none.
DeviceArgument(cmd, d) == IF cmd = "visualize" THEN "n/a" ELSE d

\* The num_episodes argument of the call.
EpisodesArgument(cmd, a) == IF cmd \in {"evaluate", "compare"} THEN a.episodes ELSE 0

\* What a collaborator can return: only evaluate_model's result is inspected.
Returns(cmd) == IF cmd = "evaluate" THEN {"results", "None"} ELSE {"value"}

\* What main prints after the collaborator returned.
AfterCall(cmd, ret) ==
    CASE cmd = "train" -> <<"Training complete!">>
      [] cmd = "evaluate" /\ ret = "None" -> <<"Evaluation failed.">>
      [] OTHER -> <<>>

-----------------------------------------------------------------------------
(* The run *)

Init ==
    /\ argv \in ArgvSet
    /\ hw \in HardwareSet
    /\ compiled \in ConfigSet
    /\ config = compiled
    /\ parser = [episodes |-> 0, learning_starts |-> 0]
    /\ args = NoArgs
    /\ device = "none"
    /\ calls = <<>>
    /\ out = <<>>
    /\ exitCode = RUNNING
    /\ pc = "start"

\* display_project_info(): prints the banner; reads the system information.
DisplayProjectInfo ==
    /\ pc = "start"
    /\ out' = Append(out, "project info")
    /\ pc' = "main"
    /\ UNCHANGED <<argv, hw, compiled, config, parser, args, device, calls, exitCode>>

\* main, lines 28-64: the parser is built; the train sub-parser captures the
\* current config values as the defaults of --episodes and --learning_starts.
BuildParser ==
    /\ pc = "main"
    /\ parser' = [episodes |-> config.TRAINING_EPISODES,
                  learning_starts |-> config.LEARNING_STARTS]
    /\ pc' = "parse"
    /\ UNCHANGED <<argv, hw, compiled, config, args, device, calls, out, exitCode>>

\* parse_args rejects the command line: usage and error, then sys.exit(2).
ParseError ==
    /\ pc = "parse"
    /\ ~ParseSucceeds(argv)
    /\ out' = Append(out, "parse error")
    /\ exitCode' = EXIT_PARSE_ERROR
    /\ pc' = "exited"
    /\ UNCHANGED <<argv, hw, compiled, config, parser, args, device, calls>>

\* parse_args returns the Namespace.
ParseArgs ==
    /\ pc = "parse"
    /\ ParseSucceeds(argv)
    /\ args' = Namespace(argv, parser)
    /\ pc' = "check_command"
    /\ UNCHANGED <<argv, hw, compiled, config, parser, device, calls, out, exitCode>>

\* No command: print_help() and return.
ShowHelp ==
    /\ pc = "check_command"
    /\ NoCommand(args)
    /\ out' = Append(out, "usage")
    /\ pc' = "returned"
    /\ UNCHANGED <<argv, hw, compiled, config, parser, args, device, calls, exitCode>>

\* determine_device(args) with both --gpu and --cpu: error and sys.exit(1).
DetermineDeviceConflict ==
    /\ pc = "check_command"
    /\ ~NoCommand(args)
    /\ DeviceConflict(args)
    /\ out' = Append(out, "Error: Cannot specify both --gpu and --cpu")
    /\ exitCode' = EXIT_DEVICE_CONFLICT
    /\ pc' = "exited"
    /\ UNCHANGED <<argv, hw, compiled, config, parser, args, device, calls>>

\* determine_device(args) returns a device.
DetermineDevice ==
    /\ pc = "check_command"
    /\ ~NoCommand(args)
    /\ ~DeviceConflict(args)
    /\ device' = ResolvedDevice(args, hw)
    /\ out' = out \o ResolutionNotices(args, hw)
    /\ pc' = "execute"
    /\ UNCHANGED <<argv, hw, compiled, config, parser, args, calls, exitCode>>

\* Faulty variant of ApplyOverrides: train is called first and the overrides are
\* applied after it.
ApplyOverrides_AfterCall ==
    /\ pc = "execute"
    /\ OverridesApply(args.command)
    /\ calls' = Append(calls, [fn |-> "train", device |-> device,
                               num_episodes |-> 0, ret |-> "value"])
    /\ config' = [TRAINING_EPISODES |-> OverrideEpisodes(config, args),
                  LEARNING_STARTS |-> OverrideLearningStarts(config, args)]
    /\ out' = out \o <<"Training complete!">> \o OverrideNotices(config, args)
    /\ pc' = "returned"
    /\ UNCHANGED <<argv, hw, compiled, parser, args, device, exitCode>>

\* The train branch, lines 80-86: the two overrides.
ApplyOverrides ==
    /\ pc = "execute"
    /\ OverridesApply(args.command)
    /\ config' = [TRAINING_EPISODES |-> OverrideEpisodes(config, args),
                  LEARNING_STARTS |-> OverrideLearningStarts(config, args)]
    /\ out' = out \o OverrideNotices(config, args)
    /\ pc' = "train"
    /\ UNCHANGED <<argv, hw, compiled, parser, args, device, calls, exitCode>>

\* The call of the command's collaborator and what main prints after it; the
\* final else prints "Unknown command" and the help.
Dispatch ==
    /\ \/ pc = "execute" /\ ~OverridesApply(args.command)
       \/ pc = "train"
    /\ IF Collaborator(args.command) # "unknown"
       THEN \E ret \in Returns(args.command) :
               /\ calls' = Append(calls, [fn |-> Collaborator(args.command),
                                          device |-> DeviceArgument(args.command, device),
                                          num_episodes |-> EpisodesArgument(args.command, args),
                                          ret |-> ret])
               /\ out' = out \o AfterCall(args.command, ret)
       ELSE /\ calls' = calls
            /\ out' = out \o <<"Unknown command", "usage">>
    /\ pc' = "returned"
    /\ UNCHANGED <<argv, hw, compiled, config, parser, args, device, exitCode>>

\* main returned: the script ends and the interpreter exits with status 0.
ProcessExit ==
    /\ pc = "returned"
    /\ exitCode' = EXIT_OK
    /\ pc' = "exited"
    /\ UNCHANGED <<argv, hw, compiled, config, parser, args, device, calls, out>>

Next ==
    \/ DisplayProjectInfo
    \/ BuildParser
    \/ ParseError
    \/ ParseArgs
    \/ ShowHelp
    \/ DetermineDeviceConflict
    \/ DetermineDevice
    \/ ApplyOverrides
    \/ Dispatch
    \/ ProcessExit

Spec == Init /\ [][Next]_vars

-----------------------------------------------------------------------------
(* Properties *)

ConflictError == "Error: Cannot specify both --gpu and --cpu"
GpuWarning == "Warning: GPU requested but no compatible GPU found, using CPU instead"

\* The run is past the command check of main (device resolution is over).
Resolved == pc \in {"execute", "train", "returned"} \/ (pc = "exited" /\ exitCode = EXIT_OK)

\* main has gone through its dispatch chain.
Dispatched == args.parsed /\ ~NoCommand(args) /\ (pc = "returned" \/ (pc = "exited" /\ exitCode = EXIT_OK))

\* The command line names one of the four commands, supplies --gpu and
\* --cpu, and is otherwise one the command accepts.
BothFlagsSupplied ==
    /\ argv.command \in Commands
    /\ argv.gpu /\ argv.cpu
    /\ ParseSucceeds([argv EXCEPT !.gpu = FALSE, !.cpu = FALSE])

\* C1 as stated: for each of the four commands, a run that supplies both
\* --gpu and --cpu calls no collaborator, leaves the configuration alone and
\* ends with the device-resolution error and a non-zero exit code.
C1_BothFlagsFatalAllCommands ==
    BothFlagsSupplied =>
        /\ calls = <<>>
        /\ config = compiled
        /\ pc = "exited" => (exitCode # EXIT_OK /\ Count(out, ConflictError) = 1)

\* C1 as amended: for train, evaluate and compare the run ends with the
\* device-resolution error and exit code 1; for visualize, which declares
\* neither flag, the parser rejects the command line (exit code 2) and no
\* device is resolved.  In all four cases the dispatch chain is never
\* entered, no collaborator is called and the configuration is unchanged.
C1_BothFlagsFatal ==
    BothFlagsSupplied =>
        /\ calls = <<>>
        /\ config = compiled
        /\ device = "none"
        /\ pc \notin {"execute", "train", "returned"}
        /\ pc # "exited" => ENABLED Next
        /\ pc = "exited" =>
              IF argv.command = "visualize"
              THEN exitCode = EXIT_PARSE_ERROR /\ Count(out, ConflictError) = 0
              ELSE exitCode = EXIT_DEVICE_CONFLICT /\ Count(out, ConflictError) = 1

C1_Witness ==
    /\ BothFlagsSupplied
    /\ argv.command = "evaluate"
    /\ pc = "exited"
    /\ exitCode = EXIT_DEVICE_CONFLICT

\* C2: when evaluate is dispatched and evaluate_model returns no result, the
\* run prints "Evaluation failed." and the process ends with a non-zero exit
\* code.
C2_EvaluationFailureExitsNonZero ==
    (/\ pc = "exited"
     /\ args.command = "evaluate"
     /\ Len(calls) = 1
     /\ calls[1].ret = "None")
    => (Count(out, "Evaluation failed.") = 1 /\ exitCode # EXIT_OK)

\* --gpu without --cpu was parsed and neither CUDA nor Apple Silicon is
\* reported available.
GpuRequestedNoneAvailable ==
    /\ args.parsed /\ args.has_device_flags
    /\ args.gpu /\ ~args.cpu
    /\ ~hw.cuda /\ ~MpsAvailable(hw)

\* C3: with --gpu set, --cpu not, and no accelerator available, resolution
\* returns CPU with exactly one warning, never ends the process, and the run
\* goes on to call the command's collaborator with the CPU device.
C3_GpuFallsBackToCpu ==
    GpuRequestedNoneAvailable =>
        /\ pc = "check_command" => (Count(out, GpuWarning) = 0 /\ ENABLED DetermineDevice)
        /\ pc # "check_command" =>
              /\ Resolved
              /\ device = "cpu"
              /\ Count(out, GpuWarning) = 1
        /\ pc # "exited" => ENABLED Next
        /\ Dispatched =>
              /\ Len(calls) = 1
              /\ calls[1].fn = Collaborator(args.command)
              /\ calls[1].device = "cpu"

C3_Witness ==
    /\ GpuRequestedNoneAvailable
    /\ pc = "exited"
    /\ Len(calls) = 1
    /\ calls[1].device = "cpu"
    /\ Count(out, GpuWarning) = 1

\* C4: with a single forced preference the resolved device follows the
\* priority table: with --gpu it is CUDA whenever CUDA is available,
\* Apple Silicon only when CUDA is absent and Apple Silicon is available,
\* and CPU otherwise; with --cpu it is CPU whatever the hardware, and no
\* warning is printed.
C4_ForcedPreferenceTable ==
    (args.parsed /\ args.has_device_flags /\ Resolved) =>
        /\ (args.gpu /\ ~args.cpu) =>
              /\ hw.cuda => device = "cuda"
              /\ (~hw.cuda /\ hw.has_mps /\ hw.mps_available) => device = "mps"
              /\ (~hw.cuda /\ ~(hw.has_mps /\ hw.mps_available)) => device = "cpu"
        /\ (args.cpu /\ ~args.gpu) =>
              /\ device = "cpu"
              /\ Count(out, GpuWarning) = 0

C4_Witness ==
    /\ args.parsed /\ args.gpu /\ ~args.cpu
    /\ Resolved
    /\ hw.cuda /\ hw.has_mps /\ hw.mps_available
    /\ device = "cuda"

\* The train branch has applied its overrides.
OverridesApplied ==
    /\ args.parsed /\ args.command = "train"
    /\ pc \in {"train", "returned"} \/ (pc = "exited" /\ exitCode = EXIT_OK)

\* C5: for train, an --episodes (--learning_starts) value that differs from
\* the configured one sets the field to exactly that value with exactly one
\* notice for the field; a field whose flag is not supplied keeps its value
\* with no notice.
C5_TrainOverrides ==
    OverridesApplied =>
        /\ (argv.episodes.given /\ argv.episodes.val # compiled.TRAINING_EPISODES) =>
              /\ config.TRAINING_EPISODES = argv.episodes.val
              /\ Count(out, "Overriding training episodes") = 1
        /\ (argv.learning_starts.given
              /\ argv.learning_starts.val # compiled.LEARNING_STARTS) =>
              /\ config.LEARNING_STARTS = argv.learning_starts.val
              /\ Count(out, "Overriding learning start threshold") = 1
        /\ ~argv.episodes.given =>
              /\ config.TRAINING_EPISODES = compiled.TRAINING_EPISODES
              /\ Count(out, "Overriding training episodes") = 0
        /\ ~argv.learning_starts.given =>
              /\ config.LEARNING_STARTS = compiled.LEARNING_STARTS
              /\ Count(out, "Overriding learning start threshold") = 0

C5_Witness ==
    /\ OverridesApplied
    /\ argv.episodes.given
    /\ argv.episodes.val # compiled.TRAINING_EPISODES
    /\ ~argv.learning_starts.given
    /\ config.TRAINING_EPISODES = argv.episodes.val
    /\ Len(calls) = 1

\* C6: only train modifies the configuration: in every run of another
\* command, and in every run that shows usage or fails, the configuration
\* equals its value at process start, whatever --episodes was supplied.
C6_OnlyTrainModifiesConfig ==
    (config # compiled) => (args.parsed /\ args.command = "train" /\ Resolved)

C6_Witness ==
    /\ args.parsed /\ args.command = "evaluate"
    /\ argv.episodes.given
    /\ args.episodes # compiled.TRAINING_EPISODES
    /\ pc = "exited"
    /\ Len(calls) = 1
    /\ calls[1].num_episodes = args.episodes
    /\ config = compiled

\* C7: a run with no subcommand prints the usage text, ends with exit code
\* 0, calls no collaborator, resolves no device and leaves the
\* configuration alone.
C7_NoCommandShowsUsage ==
    (args.parsed /\ args.command = "") =>
        /\ calls = <<>>
        /\ device = "none"
        /\ config = compiled
        /\ pc \in {"check_command", "returned", "exited"}
        /\ pc # "exited" => ENABLED Next
        /\ pc \in {"returned", "exited"} => Count(out, "usage") = 1
        /\ pc = "exited" => exitCode = EXIT_OK

C7_Witness ==
    /\ args.parsed /\ args.command = ""
    /\ pc = "exited"
    /\ Count(out, "usage") = 1

\* C8: in every run that reaches dispatch exactly one collaborator is
\* called, once, and it is the one mapped to the parsed command; the
\* "Unknown command" case is never reached.
C8_ExactlyOneCollaborator ==
    /\ Len(calls) <= 1
    /\ Count(out, "Unknown command") = 0
    /\ calls # <<>> => Dispatched
    /\ Dispatched =>
          /\ Len(calls) = 1
          /\ args.command = "train" => calls[1].fn = "train"
          /\ args.command = "evaluate" => calls[1].fn = "evaluate_model"
          /\ args.command = "compare" => calls[1].fn = "compare_models"
          /\ args.command = "visualize" => calls[1].fn = "plot_evaluation_results"

C8_Witness ==
    /\ Dispatched
    /\ args.command = "compare"
    /\ Len(calls) = 1
    /\ calls[1].fn = "compare_models"

\* C9: the phases run in the order parsing, device resolution, overrides
\* (train only), dispatch: the device is resolved before any configuration
\* field changes, every configuration change precedes the collaborator
\* call, and nothing changes the configuration once the call has started.
C9_PhaseOrder ==
    [][/\ args' # args => (device = "none" /\ config = compiled /\ calls = <<>>)
       /\ device' # device => (args.parsed /\ config = compiled /\ calls = <<>>
                               /\ config' = config /\ calls' = calls)
       /\ config' # config => (args.parsed /\ device # "none" /\ device' = device
                               /\ calls = <<>> /\ calls' = <<>>)
       /\ calls' # calls => (args.parsed /\ device # "none" /\ config' = config)
       /\ calls # <<>> => config' = config]_vars

C9_Witness ==
    /\ config # compiled
    /\ device # "none"
    /\ Len(calls) = 1
    /\ pc = "exited"

=============================================================================
